---- MODULE Spec2Model ----
(***************************************************************************)
(* Company context store of the SaaS backend: the Company collection, the  *)
(* CompanyContext collection and the handlers of companyController.js.     *)
(* Each request is a process; the multi-document transactions of           *)
(* createCompany and updateCompanyContext are modelled one awaited store   *)
(* call per step, with MongoDB's snapshot isolation: writes made through a *)
(* session stay private until commit, the first writer of a document wins  *)
(* and the second gets a write conflict, which the handler's catch block   *)
(* turns into an abort.                                                    *)
(* The team handlers of the teams controller work on the Team collection;  *)
(* each of them is one step of a client whose calls do not overlap, and so  *)
(* are the handlers of the documents, models and chat controllers.  The     *)
(* payments controller is modelled one awaited store call per step.        *)
(***************************************************************************)
EXTENDS Integers, Sequences, FiniteSets, TLC

\* ---------------------------------------------------------------- bounds
CompanyIds == {"c1", "c2"}
Texts == {"A", "B"}
Procs == {"p1", "p2"}
MaxContexts == 3

VARIABLES
  company,    \* Company collection: companyId -> document
  contexts,   \* CompanyContext collection, in insertion order
  pc,         \* position of each request handler
  req,        \* the request each process is serving / served last
  res,        \* the response sent by the step just taken, if it sent one
  loc,        \* handler locals (newVersion, the company read by findOne) and
              \* the texts of the update calls that overlapped this one
  txn         \* the session of each process: locks, pending writes

VARIABLES
  teams,      \* Team collection: team id -> document
  tres,       \* the response of the team handler that ran last
  tadd        \* each addTeamMember request served step by step: its position
              \* and the team document it holds in memory

VARIABLES
  documents,  \* Document collection: document id -> document
  aimodels,   \* AIModel collection: model id -> document
  chats,      \* Chat collection: chat id -> document
  rres        \* the response of the document, model or chat handler that ran last

VARIABLES
  accounts,      \* ids of the documents of the User collection
  usage          \* Usage collection, in insertion order

VARIABLES
  train,         \* each trainModel request: its position, the model document
                 \* it holds in memory and the simulation it scheduled
  trainRes       \* the response sent by the trainModel step just taken, if any

VARIABLES
  subscriptions, \* Subscription collection of one user, in insertion order
  userPlan,      \* User.plan of that user
  spc,           \* position of each payments handler
  sloc,          \* the subscription document a payments handler holds
  sres           \* the response sent by the payments step just taken, if any

storeVars == <<company, contexts, pc, req, res, loc, txn>>

teamVars == <<teams, tres, tadd>>

resourceVars == <<documents, aimodels, chats, rres, accounts, usage>>

subVars == <<subscriptions, userPlan, spc, sloc, sres>>

trainVars == <<train, trainRes>>

vars == <<storeVars, teamVars, resourceVars, subVars, trainVars>>

\* what the handlers of one controller leave alone
notStore == <<teamVars, resourceVars, subVars, trainVars>>

notTeam == <<storeVars, resourceVars, subVars, trainVars, tadd>>

notTeamSteps == <<storeVars, resourceVars, subVars, trainVars>>

notResource == <<storeVars, teamVars, subVars, trainVars>>

notSub == <<storeVars, teamVars, resourceVars, trainVars>>

notTrain == <<storeVars, teamVars, subVars>>

\* ---------------------------------------------------------------- documents
TrainingStatuses == {"in_progress", "completed", "failed"}

NoCompany == [exists |-> FALSE, documentContext |-> "", trainingStatus |-> ""]

CompanyDoc(text, status) ==
  [exists |-> TRUE, documentContext |-> text, trainingStatus |-> status]

ContextDoc(c, text, v, active) ==
  [company_id |-> c, context |-> text, version |-> v, isActive |-> active]

NoReq == [op |-> "none", companyId |-> "", context |-> "", arg |-> ""]
NoRes == [proc |-> "", op |-> "none", companyId |-> "", sent |-> "",
          status |-> 0, context |-> "", version |-> 0, source |-> "",
          met |-> {}, exists |-> FALSE, suggestion |-> "", created |-> 0]
NoLoc == [newVersion |-> 0, company |-> NoCompany, met |-> {}, pure |-> TRUE]
NoTxn == [open |-> FALSE, locks |-> {}, coLock |-> FALSE, snapHas |-> FALSE,
          stale |-> FALSE]

Status(code) == [NoRes EXCEPT !.status = code]

\* ---------------------------------------------------------------- teams
TeamIds == {"t1"}
Users == {"u1", "u2", "u3"}
TeamNames == {"N1", "N2"}

\* req.user.userType
UserType(u) == IF u = "u3" THEN "individual" ELSE "business"

NoTeam == [exists |-> FALSE, name |-> "", owner |-> "", businessId |-> "",
           members |-> <<>>]

NoTeamRes == [op |-> "none", team |-> "", caller |-> "", target |-> "",
              role |-> "", name |-> "", status |-> 0]

\* team: the document Team.findById returned; target, role: the body
NoAdd == [pc |-> "idle", id |-> "", caller |-> "", target |-> "", role |-> "",
          team |-> NoTeam]

MaxMembers == 3

\* members.role: enum ['admin', 'member', 'viewer']
RoleEnum == {"admin", "member", "viewer"}

\* const validRoles = ['member', 'admin']
validRoles == {"member", "admin"}

\* ---------------------------------------------------------------- resources
DocIds == {"d1"}
ModelIds == {"m1"}
ChatIds == {"h1"}
Owners == {"u1", "u2"}
TeamRefs == {"T1", "T2"}
MaxMessages == 2
MaxUsage == 2

\* user: the owner; team: req.user.teamId of the owner at creation, "" when
\* the owner had none
NoDocument == [exists |-> FALSE, user |-> "", team |-> "", title |-> ""]

NoModel == [exists |-> FALSE, user |-> "", team |-> "", status |-> "",
            documents |-> {}, trainingProgress |-> 0]

NoChat == [exists |-> FALSE, user |-> "", model |-> "", title |-> "",
           messages |-> 0]

\* teamId: req.user.teamId of the caller; valid: the body carries what the
\* handler asks for
\* documentIds: req.body.documentIds of createModel
NoResourceRes == [op |-> "none", id |-> "", caller |-> "", teamId |-> "",
                  valid |-> TRUE, status |-> 0, documentIds |-> {}]

\* a Usage document; team and resourceId are "" where the call gives none
UsageDoc(u, tm, type, id) == [user |-> u, team |-> tm, type |-> type, resourceId |-> id]

\* ---------------------------------------------------------------- training
\* the number of progress steps of simulateModelTraining
steps == 5

\* the model document a trainModel request holds in memory; dirty: the paths
\* whose value an assignment changed since the last save, which the next
\* save() writes; saving: a save() of this document is in flight
NoMem == [status |-> "", trainingProgress |-> 0, dirty |-> {}, saving |-> FALSE]

\* pc: position of the handler; sim: state of the simulation it scheduled on
\* mem; step: the loop counter i of the simulation
NoTrain == [pc |-> "idle", id |-> "", caller |-> "", mem |-> NoMem,
            sim |-> "none", step |-> 0]

\* modelStatus, trainingProgress: the model in the body of a 200
NoTrainRes == [proc |-> "", op |-> "none", id |-> "", status |-> 0,
               modelStatus |-> "", trainingProgress |-> 0]

\* ---------------------------------------------------------------- subscriptions
availablePlans == {"free", "basic", "premium", "enterprise"}
MaxSubscriptions == 2

\* the values the Subscription schema accepts for paymentMethod
paymentMethodEnum == {"credit_card", "paypal", "bank_transfer", "none"}

\* index: the document the handler holds; plan, paymentMethod: the request
\* body; setPlan, setStatus, setRenewalDate: the paths the handler's
\* assignments changed, which save() writes
NoSubLoc == [index |-> 0, plan |-> "", paymentMethod |-> "", setPlan |-> FALSE,
             setStatus |-> FALSE, setRenewalDate |-> FALSE]

NoSubRes == [proc |-> "", op |-> "none", status |-> 0]

\* ---------------------------------------------------------------- queries
ContextsOf(ctxs, c) == {i \in 1..Len(ctxs) : ctxs[i].company_id = c}

ActiveOf(ctxs, c) == {i \in ContextsOf(ctxs, c) : ctxs[i].isActive}

\* findOne({company_id}).sort({version:-1}): a record of the highest version
Latest(ctxs, ids) ==
  {i \in ids : \A j \in ids : ctxs[j].version <= ctxs[i].version}

\* variant: numbering from the records that are active instead of the latest
NewVersionStale(ctxs, c) ==
  IF ContextsOf(ctxs, c) = {} THEN 1 ELSE Cardinality(ActiveOf(ctxs, c)) + 1

\* const newVersion = latestContext ? latestContext.version + 1 : 1
NewVersion(ctxs, c) ==
  IF ContextsOf(ctxs, c) = {} THEN 1
  ELSE (CHOOSE v \in {ctxs[i].version : i \in ContextsOf(ctxs, c)} :
          \A i \in ContextsOf(ctxs, c) : ctxs[i].version <= v) + 1

\* updateMany({company_id}, {isActive:false}) on the given documents
Deactivate(ctxs, ids) ==
  [i \in 1..Len(ctxs) |->
     IF i \in ids THEN [ctxs[i] EXCEPT !.isActive = FALSE] ELSE ctxs[i]]

\* ---------------------------------------------------------------- sessions
\* variant: the writes of createCompany made without a transaction
createCompanyNoTransaction == FALSE

\* createCompany: session.startTransaction() and { session } on both creates
createCompanyTransaction == TRUE

\* variant: the writes of updateCompanyContext made without a transaction
updateCompanyContextNoTransaction == FALSE

\* updateCompanyContext: session.startTransaction() and { session } on the
\* three writes
updateCompanyContextTransaction == TRUE

CompanyLockedByOther(p, c) ==
  \E q \in Procs \ {p} : txn[q].coLock /\ req[q].companyId = c

ContextLockedByOther(p, ids) ==
  \E q \in Procs \ {p} : txn[q].locks \cap ids # {}

\* a committed write to Company c invalidates the snapshot of every open
\* transaction that targets c
MarkStale(t, p, cs) ==
  [q \in Procs |->
     IF q # p /\ t[q].open /\ req[q].companyId \in cs
     THEN [t[q] EXCEPT !.stale = TRUE] ELSE t[q]]

\* ---------------------------------------------------------------- history
UpdateSteps == {"uc_latest", "uc_deactivate", "uc_insert", "uc_company", "uc_commit"}

\* what a step of process q means for the updateCompanyContext calls the
\* other processes have open: t is the text q submits when the step belongs
\* to an updateCompanyContext call on c, "" for every other step
Touch(l, q, t, c) ==
  [p \in Procs |->
     IF p # q /\ pc[p] \in UpdateSteps /\ l[p].pure
     THEN IF t # "" /\ req[p].companyId = c
          THEN [l[p] EXCEPT !.met = @ \cup {t}]
          ELSE [l[p] EXCEPT !.met = {}, !.pure = FALSE]
     ELSE l[p]]

InFlight == {q \in Procs : pc[q] \notin {"idle", "gc_context", "cd_contexts"}}

Room == Len(contexts) + Cardinality(InFlight) < MaxContexts

\* ---------------------------------------------------------------- Init
CompanyStoreEmpty ==
  /\ company = [c \in CompanyIds |-> NoCompany]
  /\ contexts = <<>>
  /\ pc = [p \in Procs |-> "idle"]
  /\ req = [p \in Procs |-> NoReq]
  /\ res = NoRes
  /\ loc = [p \in Procs |-> NoLoc]
  /\ txn = [p \in Procs |-> NoTxn]

TeamStoreEmpty ==
  /\ teams = [t \in TeamIds |-> NoTeam]
  /\ tres = NoTeamRes
  /\ tadd = [p \in Procs |-> NoAdd]

ResourceStoreEmpty ==
  /\ documents = [d \in DocIds |-> NoDocument]
  /\ aimodels = [m \in ModelIds |-> NoModel]
  /\ chats = [c \in ChatIds |-> NoChat]
  /\ rres = NoResourceRes
  /\ accounts = Owners
  /\ usage = <<>>

SubscriptionStoreEmpty ==
  /\ subscriptions = <<>>
  /\ userPlan = "free"
  /\ spc = [p \in Procs |-> "idle"]
  /\ sloc = [p \in Procs |-> NoSubLoc]
  /\ sres = NoSubRes

NoTraining ==
  /\ train = [p \in Procs |-> NoTrain]
  /\ trainRes = NoTrainRes

Init ==
  /\ CompanyStoreEmpty
  /\ TeamStoreEmpty
  /\ ResourceStoreEmpty
  /\ SubscriptionStoreEmpty
  /\ NoTraining


\* ---------------------------------------------------------------- helpers
Request(op, c, t, arg) == [op |-> op, companyId |-> c, context |-> t, arg |-> arg]

\* the text a step of request rq contributes to overlapping update calls
UpdateText(rq) == IF rq.op = "updateCompanyContext" THEN rq.context ELSE ""

\* the handler answers request rq with r and returns
Reply(p, rq, r) ==
  /\ res' = [r EXCEPT !.proc = p, !.op = rq.op, !.companyId = rq.companyId,
                      !.sent = rq.context,
                      !.met = IF pc[p] \in UpdateSteps THEN loc[p].met ELSE {}]
  /\ UNCHANGED notStore
  /\ pc' = [pc EXCEPT ![p] = "idle"]
  /\ req' = [req EXCEPT ![p] = NoReq]
  /\ loc' = Touch([loc EXCEPT ![p] = NoLoc], p,
                 IF pc[p] \in UpdateSteps THEN rq.context ELSE "", rq.companyId)

\* the handler of request rq awaits its next store call with locals l
Goto(p, rq, label, l) ==
  /\ pc' = [pc EXCEPT ![p] = label]
  /\ req' = [req EXCEPT ![p] = rq]
  /\ res' = NoRes
  /\ UNCHANGED notStore
  /\ loc' = Touch([loc EXCEPT ![p] = l], p, UpdateText(rq), rq.companyId)

\* catch (error) { await session.abortTransaction(); return next(error) }:
\* the pending writes are dropped and the error handler answers 500
Abort(p) ==
  /\ txn' = [txn EXCEPT ![p] = NoTxn]
  /\ Reply(p, req[p], Status(500))
  /\ UNCHANGED <<company, contexts>>

\* ---------------------------------------------------------------- createCompany
StartCreate(p, c, t) ==
  LET rq == Request("createCompany", c, t, "")
  IN /\ pc[p] = "idle"
     /\ Room
     /\ IF t = "" \/ company[c].exists
        THEN Reply(p, rq, Status(400))
        ELSE Goto(p, rq, "cc_company", NoLoc)
     /\ UNCHANGED <<company, contexts, txn>>

\* Company.create([...], { session })
CreateCompanyDoc(p) ==
  LET c == req[p].companyId
      t == req[p].context
  IN /\ pc[p] = "cc_company"
     /\ UNCHANGED contexts
     /\ IF createCompanyTransaction
        THEN IF company[c].exists \/ CompanyLockedByOther(p, c)
             THEN Abort(p)
             ELSE /\ txn' = [txn EXCEPT ![p] =
                               [NoTxn EXCEPT !.open = TRUE, !.coLock = TRUE]]
                  /\ Goto(p, req[p], "cc_context", loc[p])
                  /\ UNCHANGED company
        ELSE /\ ~CompanyLockedByOther(p, c)
             /\ IF company[c].exists
                THEN Abort(p)
                ELSE /\ company' = [company EXCEPT ![c] = CompanyDoc(t, "completed")]
                     /\ txn' = MarkStale(txn, p, {c})
                     /\ Goto(p, req[p], "cc_context", loc[p])

\* CompanyContext.create([{version: 1, isActive: true}], { session })
CreateContextDoc(p) ==
  LET c == req[p].companyId
      t == req[p].context
  IN /\ pc[p] = "cc_context"
     /\ Goto(p, req[p], "cc_commit", loc[p])
     /\ contexts' = IF createCompanyTransaction THEN contexts
                    ELSE Append(contexts, ContextDoc(c, t, 1, TRUE))
     /\ UNCHANGED <<company, txn>>

\* session.commitTransaction(); res.status(201)
CreateCommit(p) ==
  LET c == req[p].companyId
      t == req[p].context
  IN /\ pc[p] = "cc_commit"
     /\ Reply(p, req[p], Status(201))
     /\ IF createCompanyTransaction
        THEN /\ company' = [company EXCEPT ![c] = CompanyDoc(t, "completed")]
             /\ contexts' = Append(contexts, ContextDoc(c, t, 1, TRUE))
             /\ txn' = MarkStale([txn EXCEPT ![p] = NoTxn], p, {c})
        ELSE UNCHANGED <<company, contexts, txn>>

\* ---------------------------------------------------------------- updateCompanyContext
StartUpdate(p, c, t) ==
  LET rq == Request("updateCompanyContext", c, t, "")
      open == {q \in Procs \ {p} : pc[q] \in UpdateSteps /\ req[q].companyId = c}
  IN /\ pc[p] = "idle"
     /\ Room
     /\ IF t = ""
        THEN Reply(p, rq, Status(400))
        ELSE IF ~company[c].exists
             THEN Reply(p, rq, Status(404))
             ELSE Goto(p, rq, "uc_latest",
                       [NoLoc EXCEPT !.met = {req[q].context : q \in open}])
     /\ UNCHANGED <<company, contexts, txn>>

\* CompanyContext.findOne({company_id}).sort({version: -1}), without the session
ReadLatest(p) ==
  LET c == req[p].companyId
  IN /\ pc[p] = "uc_latest"
     /\ Goto(p, req[p], "uc_deactivate",
             [loc[p] EXCEPT !.newVersion = NewVersion(contexts, c)])
     /\ UNCHANGED <<company, contexts, txn>>

\* CompanyContext.updateMany({company_id}, {isActive: false}, { session }):
\* the first call made through the session, which takes the snapshot
DeactivateAll(p) ==
  LET c == req[p].companyId
      ids == ContextsOf(contexts, c)
  IN /\ pc[p] = "uc_deactivate"
     /\ UNCHANGED company
     /\ IF updateCompanyContextTransaction
        THEN IF ContextLockedByOther(p, ids)
             THEN Abort(p)
             ELSE /\ txn' = [txn EXCEPT ![p] =
                               [NoTxn EXCEPT !.open = TRUE, !.locks = ids,
                                             !.snapHas = company[c].exists]]
                  /\ Goto(p, req[p], "uc_insert", loc[p])
                  /\ UNCHANGED contexts
        ELSE /\ ~ContextLockedByOther(p, ids)
             /\ contexts' = Deactivate(contexts, ids)
             /\ Goto(p, req[p], "uc_insert", loc[p])
             /\ UNCHANGED txn

\* CompanyContext.create([{version: newVersion, isActive: true}], { session })
InsertContext(p) ==
  LET c == req[p].companyId
      t == req[p].context
  IN /\ pc[p] = "uc_insert"
     /\ Goto(p, req[p], "uc_company", loc[p])
     /\ contexts' = IF updateCompanyContextTransaction THEN contexts
                    ELSE Append(contexts, ContextDoc(c, t, loc[p].newVersion, TRUE))
     /\ UNCHANGED <<company, txn>>

\* Company.findOneAndUpdate({companyId}, {documentContext: context}, { session })
UpdateCompanyDoc(p) ==
  LET c == req[p].companyId
      t == req[p].context
  IN /\ pc[p] = "uc_company"
     /\ UNCHANGED contexts
     /\ IF updateCompanyContextTransaction
        THEN IF txn[p].snapHas /\ (CompanyLockedByOther(p, c) \/ txn[p].stale)
             THEN Abort(p)
             ELSE /\ txn' = [txn EXCEPT ![p].coLock = txn[p].snapHas]
                  /\ Goto(p, req[p], "uc_commit", loc[p])
                  /\ UNCHANGED company
        ELSE /\ ~CompanyLockedByOther(p, c)
             /\ company' = IF company[c].exists
                           THEN [company EXCEPT ![c].documentContext = t]
                           ELSE company
             /\ txn' = MarkStale(txn, p, {c})
             /\ Goto(p, req[p], "uc_commit", loc[p])

\* session.commitTransaction(); res.status(200) with newContext[0]
UpdateCommit(p) ==
  LET c == req[p].companyId
      t == req[p].context
      v == loc[p].newVersion
  IN /\ pc[p] = "uc_commit"
     /\ Reply(p, req[p], [Status(200) EXCEPT !.context = t, !.version = v])
     /\ IF updateCompanyContextTransaction
        THEN /\ contexts' = Append(Deactivate(contexts, txn[p].locks),
                                   ContextDoc(c, t, v, TRUE))
             /\ company' = IF txn[p].coLock
                           THEN [company EXCEPT ![c].documentContext = t]
                           ELSE company
             /\ txn' = MarkStale([txn EXCEPT ![p] = NoTxn], p,
                                 IF txn[p].coLock THEN {c} ELSE {})
        ELSE UNCHANGED <<company, contexts, txn>>

\* ---------------------------------------------------------------- single-write handlers
CompanyLocked(c) == \E q \in Procs : txn[q].coLock /\ req[q].companyId = c

\* updateCompany: findOne, then findOneAndUpdate({companyId}, req.body,
\* {runValidators: true}); the body may carry documentContext and companyId
UpdateCompany(p, c, t, c2) ==
  LET rq == Request("updateCompany", c, t, c2)
      doc == [company[c] EXCEPT !.documentContext = IF t = "keep" THEN @ ELSE t]
  IN /\ pc[p] = "idle"
     /\ UNCHANGED contexts
     /\ IF ~company[c].exists
        THEN Reply(p, rq, Status(404)) /\ UNCHANGED <<company, txn>>
        ELSE /\ ~CompanyLocked(c)
             /\ c2 # "keep" => ~CompanyLocked(c2)
             /\ IF t = "" \/ (c2 \notin {"keep", c} /\ company[c2].exists)
                THEN Reply(p, rq, Status(500)) /\ UNCHANGED <<company, txn>>
                ELSE /\ company' = IF c2 \in {"keep", c}
                                   THEN [company EXCEPT ![c] = doc]
                                   ELSE [company EXCEPT ![c] = NoCompany, ![c2] = doc]
                     /\ txn' = MarkStale(txn, p, {c, c2})
                     /\ Reply(p, rq, Status(200))

\* deleteCompany: findOne, then company.deleteOne()
DeleteCompany(p, c) ==
  LET rq == Request("deleteCompany", c, "", "")
  IN /\ pc[p] = "idle"
     /\ UNCHANGED contexts
     /\ IF ~company[c].exists
        THEN Reply(p, rq, Status(404)) /\ UNCHANGED <<company, txn>>
        ELSE /\ ~CompanyLocked(c)
             /\ company' = [company EXCEPT ![c] = NoCompany]
             /\ txn' = MarkStale(txn, p, {c})
             /\ Reply(p, rq, Status(200))

\* updateTrainingStatus: findOneAndUpdate({companyId}, {trainingStatus: status})
UpdateTrainingStatus(p, c, s) ==
  LET rq == Request("updateTrainingStatus", c, "", s)
  IN /\ pc[p] = "idle"
     /\ UNCHANGED contexts
     /\ IF s \notin TrainingStatuses
        THEN Reply(p, rq, Status(400)) /\ UNCHANGED <<company, txn>>
        ELSE IF ~company[c].exists
             THEN Reply(p, rq, Status(404)) /\ UNCHANGED <<company, txn>>
             ELSE /\ ~CompanyLocked(c)
                  /\ company' = [company EXCEPT ![c].trainingStatus = s]
                  /\ txn' = MarkStale(txn, p, {c})
                  /\ Reply(p, rq, Status(200))

\* companyId = `${userId}-${timestamp}-${randomString}`: an id no company
\* and no context record carries and no request in flight names
FreshIds ==
  {c \in CompanyIds :
     /\ ~company[c].exists
     /\ ContextsOf(contexts, c) = {}
     /\ \A q \in Procs : req[q].companyId # c}

\* storeSummary: Company.create and CompanyContext.create in one transaction
StoreSummary(p, t) ==
  /\ pc[p] = "idle"
  /\ Room
  /\ UNCHANGED txn
  /\ IF t = ""
     THEN /\ Reply(p, Request("storeSummary", "", t, ""), Status(400))
          /\ UNCHANGED <<company, contexts>>
     ELSE \E c \in FreshIds :
            /\ company' = [company EXCEPT ![c] = CompanyDoc(t, "completed")]
            /\ contexts' = Append(contexts, ContextDoc(c, t, 1, TRUE))
            /\ Reply(p, Request("storeSummary", c, t, ""), Status(201))

\* ---------------------------------------------------------------- migrateCompanyContexts
\* variant: the script does not look for an active version
NeedsContextAnyway(co, ctxs, c) == co[c].exists /\ co[c].documentContext # ""

\* the script creates a record for a company of Company.find({}) when
\* CompanyContext.findOne({company_id, isActive: true}) finds nothing and
\* company.documentContext is truthy
NeedsContext(co, ctxs, c) ==
  /\ co[c].exists
  /\ ActiveOf(ctxs, c) = {}
  /\ co[c].documentContext # ""

\* the orders in which Company.find({}) can list the companies
Orders ==
  {s \in [1..Cardinality(CompanyIds) -> CompanyIds] :
     \A i, j \in DOMAIN s : i # j => s[i] # s[j]}

\* the CompanyContext collection after the loop over the companies of order
RECURSIVE MigrateRun(_, _, _)
MigrateRun(co, ctxs, order) ==
  IF order = <<>> THEN ctxs
  ELSE LET c == Head(order)
           next == IF NeedsContext(co, ctxs, c)
                   THEN Append(ctxs, ContextDoc(c, co[c].documentContext, 1, TRUE))
                   ELSE ctxs
       IN MigrateRun(co, next, Tail(order))

\* one run of the script, while no request is being served
MigrateCompanyContexts ==
  /\ \A p \in Procs : pc[p] = "idle"
  /\ \E order \in Orders :
       /\ Len(MigrateRun(company, contexts, order)) <= MaxContexts
       /\ contexts' = MigrateRun(company, contexts, order)
  /\ res' = [NoRes EXCEPT !.op = "migrateCompanyContexts",
                           !.created = Len(contexts') - Len(contexts)]
  /\ UNCHANGED <<notStore, company, pc, req, loc, txn>>

\* ---------------------------------------------------------------- getCompanyContext
\* the answers the handler can give from the company it read first and the
\* contexts it reads then
ContextAnswers(co, ctxs, c) ==
  IF ActiveOf(ctxs, c) = {}
  THEN IF co.documentContext = ""
       THEN {Status(404)}
       ELSE {[Status(200) EXCEPT !.context = co.documentContext, !.version = 1,
                                 !.source = "company_fallback"]}
  ELSE {[Status(200) EXCEPT !.context = ctxs[i].context,
                            !.version = ctxs[i].version,
                            !.source = "context_collection"] :
          i \in Latest(ctxs, ActiveOf(ctxs, c))}

\* Company.findOne({companyId})
GetFindCompany(p, c) ==
  LET rq == Request("getCompanyContext", c, "", "")
  IN /\ pc[p] = "idle"
     /\ IF ~company[c].exists
        THEN Reply(p, rq, Status(404))
        ELSE Goto(p, rq, "gc_context", [NoLoc EXCEPT !.company = company[c]])
     /\ UNCHANGED <<company, contexts, txn>>

\* CompanyContext.findOne({company_id, isActive: true}).sort({version: -1})
GetFindContext(p) ==
  LET c == req[p].companyId
  IN /\ pc[p] = "gc_context"
     /\ \E r \in ContextAnswers(loc[p].company, contexts, c) : Reply(p, req[p], r)
     /\ UNCHANGED <<company, contexts, txn>>

\* ---------------------------------------------------------------- context-diagnostic
\* String.length of the texts the requests carry: "s" is a text of exactly
\* a hundred characters, every other non-empty text is longer
TextLength(t) == IF t = "" THEN 0 ELSE IF t = "s" THEN 100 ELSE 101

\* !!(company.documentContext && company.documentContext.length > 100)
hasDocumentContext(co) ==
  co.documentContext # "" /\ TextLength(co.documentContext) > 100

\* the if / else if chain that sets diagnostic.suggestion; "" when none is set
Suggestion(co, ctxs, c) ==
  IF ContextsOf(ctxs, c) = {} /\ hasDocumentContext(co) THEN "CREATE_CONTEXT"
  ELSE IF ContextsOf(ctxs, c) = {} /\ ~hasDocumentContext(co) THEN "UPLOAD_DOCUMENT"
  ELSE IF Cardinality(ActiveOf(ctxs, c)) > 1 THEN "FIX_ACTIVE_CONTEXTS"
  ELSE ""

\* if (!company) return res.status(404).json({diagnostic: {exists: false}})
DiagnosticMissing == [Status(404) EXCEPT !.exists = FALSE]

\* Company.findOne({ companyId })
DiagFindCompany(p, c) ==
  LET rq == Request("contextDiagnostic", c, "", "")
  IN /\ pc[p] = "idle"
     /\ IF ~company[c].exists
        THEN Reply(p, rq, DiagnosticMissing)
        ELSE Goto(p, rq, "cd_contexts", [NoLoc EXCEPT !.company = company[c]])
     /\ UNCHANGED <<company, contexts, txn>>

\* CompanyContext.find({ company_id }).sort({ version: -1 }) and the report
DiagFindContexts(p) ==
  LET c == req[p].companyId
  IN /\ pc[p] = "cd_contexts"
     /\ Reply(p, req[p],
              [Status(200) EXCEPT !.exists = TRUE,
                                  !.suggestion = Suggestion(loc[p].company, contexts, c)])
     /\ UNCHANGED <<company, contexts, txn>>

\* ---------------------------------------------------------------- teams controller
\* the document createTeam hands to Team.create: no businessId
NewTeam(n, u) ==
  [exists |-> TRUE, name |-> n, owner |-> u, businessId |-> "",
   members |-> <<[user |-> u, role |-> "owner"]>>]

\* TeamSchema validation of a whole document: businessId is required and
\* every members.role is one of the enum
SchemaAccepts(doc) ==
  /\ doc.businessId # ""
  /\ \A i \in 1..Len(doc.members) : doc.members[i].role \in RoleEnum

\* team.save() of a loaded document: it passes when the document satisfies
\* the schema; when an entry loaded from the store does not, the outcome
\* depends on whether the mapper validates the paths the handler left alone
SaveOutcomes(doc) ==
  IF SchemaAccepts(doc) THEN {200} ELSE {200, 500}

\* team.members.find(member => member.user.toString() === id): the index of
\* the first entry of the user, 0 when there is none
MemberIndex(team, u) ==
  IF \E i \in 1..Len(team.members) : team.members[i].user = u
  THEN CHOOSE i \in 1..Len(team.members) :
         /\ team.members[i].user = u
         /\ \A j \in 1..(i - 1) : team.members[j].user # u
  ELSE 0

RoleIn(team, u) ==
  IF MemberIndex(team, u) = 0 THEN "none" ELSE team.members[MemberIndex(team, u)].role

\* variant: every member of the team may manage its members
MayManageMembersAnyMember(team, u) == RoleIn(team, u) # "none"

\* userMember && (userMember.role === 'owner' || userMember.role === 'admin')
MayManageMembers(team, u) == RoleIn(team, u) \in {"owner", "admin"}

\* variant: the owner's entry is treated like any other entry
IsOwnerEntryNever(team, u) == FALSE

\* team.owner.toString() === req.params.userId
IsOwnerEntry(team, u) == team.owner = u

\* team.members.splice(memberIndex, 1)
Splice(members, i) ==
  [j \in 1..(Len(members) - 1) |-> IF j < i THEN members[j] ELSE members[j + 1]]

TeamReply(op, t, u, target, role, code) ==
  tres' = [NoTeamRes EXCEPT !.op = op, !.team = t, !.caller = u,
                            !.target = target, !.role = role, !.status = code]

\* the answer to a call whose body carries a team name
NamedReply(op, t, u, n, code) ==
  tres' = [NoTeamRes EXCEPT !.op = op, !.team = t, !.caller = u,
                            !.name = n, !.status = code]

\* team.save(): a validation error leaves the stored document as it is
SaveTeam(op, t, u, target, role, doc) ==
  \E code \in SaveOutcomes(doc) :
    /\ TeamReply(op, t, u, target, role, code)
    /\ teams' = IF code = 200 THEN [teams EXCEPT ![t] = doc] ELSE teams

\* createTeam
CreateTeam(u, n) ==
  /\ UNCHANGED notTeam
  /\ IF UserType(u) # "business"
     THEN NamedReply("createTeam", "", u, n, 403) /\ UNCHANGED teams
     ELSE IF n = ""
          THEN NamedReply("createTeam", "", u, n, 400) /\ UNCHANGED teams
          ELSE IF SchemaAccepts(NewTeam(n, u))
               THEN \E t \in TeamIds :
                      /\ ~teams[t].exists
                      /\ teams' = [teams EXCEPT ![t] = NewTeam(n, u)]
                      /\ NamedReply("createTeam", t, u, n, 201)
               ELSE NamedReply("createTeam", "", u, n, 500) /\ UNCHANGED teams

\* updateTeam
UpdateTeam(u, t, n) ==
  /\ UNCHANGED notTeam
  /\ IF ~teams[t].exists
     THEN NamedReply("updateTeam", t, u, n, 404) /\ UNCHANGED teams
     ELSE IF teams[t].owner # u
          THEN NamedReply("updateTeam", t, u, n, 403) /\ UNCHANGED teams
          ELSE /\ teams' = IF n # "" THEN [teams EXCEPT ![t].name = n] ELSE teams
               /\ NamedReply("updateTeam", t, u, n, 200)

\* deleteTeam
DeleteTeam(u, t) ==
  /\ UNCHANGED notTeam
  /\ IF ~teams[t].exists
     THEN TeamReply("deleteTeam", t, u, "", "", 404) /\ UNCHANGED teams
     ELSE IF teams[t].owner # u
          THEN TeamReply("deleteTeam", t, u, "", "", 403) /\ UNCHANGED teams
          ELSE /\ teams' = [teams EXCEPT ![t] = NoTeam]
               /\ TeamReply("deleteTeam", t, u, "", "", 200)

\* addTeamMember: email names the user to add, "" when the body has none and
\* "nobody" when no user has it
AddTeamMember(u, t, email, role) ==
  LET team == teams[t]
      Answer(code) == TeamReply("addTeamMember", t, u, email, role, code) /\ UNCHANGED teams
  IN /\ UNCHANGED notTeam
     /\ IF email = "" THEN Answer(400)
        ELSE IF role # "" /\ role \notin validRoles THEN Answer(400)
        ELSE IF ~team.exists THEN Answer(404)
        ELSE IF ~MayManageMembers(team, u) THEN Answer(403)
        ELSE IF email \notin Users THEN Answer(404)
        ELSE IF MemberIndex(team, email) # 0 THEN Answer(400)
        ELSE SaveTeam("addTeamMember", t, u, email, role,
                      [team EXCEPT !.members =
                         Append(@, [user |-> email,
                                    role |-> IF role = "" THEN "member" ELSE role])])

\* addTeamMember, one awaited store call per step: up to the answer of
\* Team.findById and the check of the caller's role
AddFindTeam(p, u, t, email, role) ==
  LET team == teams[t]
      Answer(code) == TeamReply("addTeamMember", t, u, email, role, code) /\ UNCHANGED tadd
  IN /\ tadd[p].pc = "idle"
     /\ UNCHANGED <<notTeamSteps, teams>>
     /\ IF email = "" THEN Answer(400)
        ELSE IF role # "" /\ role \notin validRoles THEN Answer(400)
        ELSE IF ~team.exists THEN Answer(404)
        ELSE IF ~MayManageMembers(team, u) THEN Answer(403)
        ELSE /\ tadd' = [tadd EXCEPT ![p] =
                           [pc |-> "am_user", id |-> t, caller |-> u, target |-> email,
                            role |-> role, team |-> team]]
             /\ tres' = NoTeamRes

\* from the answer of User.findOne({email}): isAlreadyMember is computed on
\* the document the handler holds, then members.push and team.save()
AddFindUser(p) ==
  LET a == tadd[p]
      Answer(code) == /\ TeamReply("addTeamMember", a.id, a.caller, a.target, a.role, code)
                      /\ tadd' = [tadd EXCEPT ![p] = NoAdd]
  IN /\ a.pc = "am_user"
     /\ UNCHANGED <<notTeamSteps, teams>>
     /\ IF a.target \notin Users THEN Answer(404)
        ELSE IF MemberIndex(a.team, a.target) # 0 THEN Answer(400)
        ELSE /\ tadd' = [tadd EXCEPT
                           ![p].pc = "am_save",
                           ![p].team.members =
                              Append(@, [user |-> a.target,
                                         role |-> IF a.role = "" THEN "member" ELSE a.role])]
             /\ tres' = NoTeamRes

\* team.save() of a document whose only change is the pushed entry: the
\* mapper sends $push of that entry, which the store applies to the members
\* array as it is stored now
AddSave(p) ==
  LET a == tadd[p]
      entry == a.team.members[Len(a.team.members)]
  IN /\ a.pc = "am_save"
     /\ UNCHANGED notTeamSteps
     /\ tadd' = [tadd EXCEPT ![p] = NoAdd]
     /\ \E code \in SaveOutcomes(a.team) :
          /\ TeamReply("addTeamMember", a.id, a.caller, a.target, a.role, code)
          /\ IF code = 200
             THEN /\ Len(teams[a.id].members) < MaxMembers
                  /\ teams' = [teams EXCEPT ![a.id].members = Append(@, entry)]
             ELSE UNCHANGED teams

\* removeTeamMember
RemoveTeamMember(u, t, target) ==
  LET team == teams[t]
      Answer(code) == TeamReply("removeTeamMember", t, u, target, "", code) /\ UNCHANGED teams
  IN /\ UNCHANGED notTeam
     /\ IF ~team.exists THEN Answer(404)
        ELSE IF ~MayManageMembers(team, u) THEN Answer(403)
        ELSE IF IsOwnerEntry(team, target) THEN Answer(400)
        ELSE IF MemberIndex(team, target) = 0 THEN Answer(404)
        ELSE SaveTeam("removeTeamMember", t, u, target, "",
                      [team EXCEPT !.members = Splice(@, MemberIndex(team, target))])

\* updateMemberRole
UpdateMemberRole(u, t, target, role) ==
  LET team == teams[t]
      Answer(code) == TeamReply("updateMemberRole", t, u, target, role, code) /\ UNCHANGED teams
  IN /\ UNCHANGED notTeam
     /\ IF role \notin validRoles THEN Answer(400)
        ELSE IF ~team.exists THEN Answer(404)
        ELSE IF team.owner # u THEN Answer(403)
        ELSE IF IsOwnerEntry(team, target) THEN Answer(400)
        ELSE IF MemberIndex(team, target) = 0 THEN Answer(404)
        ELSE SaveTeam("updateMemberRole", t, u, target, role,
                      [team EXCEPT !.members[MemberIndex(team, target)].role = role])

\* ---------------------------------------------------------------- documents, models, chats
ResourceReply(op, id, u, tm, valid, code) ==
  rres' = [NoResourceRes EXCEPT !.op = op, !.id = id, !.caller = u, !.teamId = tm,
                                !.valid = valid, !.status = code]

\* Usage.create({user, team, type, resourceId, ...})
TrackUsage(u, tm, type, id) ==
  /\ Len(usage) < MaxUsage
  /\ usage' = Append(usage, UsageDoc(u, tm, type, id))

\* variant: a team reference the caller and the resource both lack counts as shared
MayReadSameTeam(r, u, tm) == r.user = u \/ r.team = tm

\* the read check of getDocument and getModel: not
\* (r.user !== req.user.id && (!req.user.teamId || r.team !== req.user.teamId))
MayRead(r, u, tm) == ~(r.user # u /\ (tm = "" \/ r.team # tm))

\* uploadDocument
UploadDocument(u, tm, title) ==
  /\ UNCHANGED <<notResource, accounts, aimodels, chats>>
  /\ IF title = ""
     THEN /\ ResourceReply("uploadDocument", "", u, tm, FALSE, 400)
          /\ UNCHANGED <<documents, usage>>
     ELSE \E d \in DocIds :
            /\ ~documents[d].exists
            /\ documents' = [documents EXCEPT ![d] =
                               [exists |-> TRUE, user |-> u, team |-> tm, title |-> title]]
            /\ TrackUsage(u, tm, "document_upload", d)
            /\ ResourceReply("uploadDocument", d, u, tm, TRUE, 201)

\* getDocument
GetDocument(u, tm, d) ==
  /\ UNCHANGED <<notResource, accounts, usage, documents, aimodels, chats>>
  /\ ResourceReply("getDocument", d, u, tm, TRUE,
                   IF ~documents[d].exists THEN 404
                   ELSE IF ~MayRead(documents[d], u, tm) THEN 403 ELSE 200)

\* updateDocument: findByIdAndUpdate(id, { title, description, isPublic });
\* a title the body lacks is left as it is
UpdateDocument(u, tm, d, title) ==
  /\ UNCHANGED <<notResource, accounts, usage, aimodels, chats>>
  /\ IF ~documents[d].exists
     THEN ResourceReply("updateDocument", d, u, tm, TRUE, 404) /\ UNCHANGED documents
     ELSE IF documents[d].user # u
          THEN ResourceReply("updateDocument", d, u, tm, TRUE, 403) /\ UNCHANGED documents
          ELSE /\ documents' = IF title = "" THEN documents
                               ELSE [documents EXCEPT ![d].title = title]
               /\ ResourceReply("updateDocument", d, u, tm, TRUE, 200)

\* deleteDocument
DeleteDocument(u, tm, d) ==
  /\ UNCHANGED <<notResource, accounts, usage, aimodels, chats>>
  /\ IF ~documents[d].exists
     THEN ResourceReply("deleteDocument", d, u, tm, TRUE, 404) /\ UNCHANGED documents
     ELSE IF documents[d].user # u
          THEN ResourceReply("deleteDocument", d, u, tm, TRUE, 403) /\ UNCHANGED documents
          ELSE /\ documents' = [documents EXCEPT ![d] = NoDocument]
               /\ ResourceReply("deleteDocument", d, u, tm, TRUE, 200)

\* the strings Document.find can cast to an ObjectId; a query with any
\* other value throws a CastError
CastsToObjectId(id) == id \in DocIds

\* createModel: ids are the documentIds of the body; an error thrown by
\* Document.find reaches the error handler, which answers
\* err.statusCode || 500
CreateModel(u, tm, name, ids) ==
  LET found == {d \in ids : documents[d].exists /\ documents[d].user = u}
      Answer(m, valid, code) ==
        rres' = [NoResourceRes EXCEPT !.op = "createModel", !.id = m, !.caller = u,
                                      !.teamId = tm, !.valid = valid, !.status = code,
                                      !.documentIds = ids]
  IN /\ UNCHANGED <<notResource, accounts, documents, chats>>
     /\ IF name = ""
        THEN Answer("", FALSE, 400) /\ UNCHANGED <<aimodels, usage>>
        ELSE IF \E d \in ids : ~CastsToObjectId(d)
             THEN Answer("", TRUE, 500) /\ UNCHANGED <<aimodels, usage>>
             ELSE IF ids # {} /\ found # ids
                  THEN Answer("", TRUE, 400) /\ UNCHANGED <<aimodels, usage>>
                  ELSE \E m \in ModelIds :
                         /\ ~aimodels[m].exists
                         /\ aimodels' = [aimodels EXCEPT ![m] =
                                           [exists |-> TRUE, user |-> u, team |-> tm,
                                            status |-> "pending", documents |-> found,
                                            trainingProgress |-> 0]]
                         /\ TrackUsage(u, tm, "model_training", m)
                         /\ Answer(m, TRUE, 201)

\* getModel
GetModel(u, tm, m) ==
  /\ UNCHANGED <<notResource, accounts, usage, documents, aimodels, chats>>
  /\ ResourceReply("getModel", m, u, tm, TRUE,
                   IF ~aimodels[m].exists THEN 404
                   ELSE IF ~MayRead(aimodels[m], u, tm) THEN 403 ELSE 200)

\* trainModel: the status check comes before the ownership check
TrainModel(u, tm, m) ==
  LET model == aimodels[m]
      Answer(code) == ResourceReply("trainModel", m, u, tm, TRUE, code) /\ UNCHANGED aimodels
  IN /\ UNCHANGED <<notResource, accounts, usage, documents, chats>>
     /\ IF ~model.exists THEN Answer(404)
        ELSE IF model.status = "training" THEN Answer(400)
        ELSE IF model.user # u THEN Answer(403)
        ELSE IF {d \in model.documents : documents[d].exists} = {} THEN Answer(400)
        ELSE /\ aimodels' = [aimodels EXCEPT ![m].status = "training",
                                              ![m].trainingProgress = 0]
             /\ ResourceReply("trainModel", m, u, tm, TRUE, 200)

\* simulateModelTraining, started by trainModel with setTimeout: the
\* training of a stored model comes to its end
TrainingCompletes(m) ==
  /\ aimodels[m].exists
  /\ aimodels[m].status = "training"
  /\ aimodels' = [aimodels EXCEPT ![m].status = "ready", ![m].trainingProgress = 100]
  /\ rres' = NoResourceRes
  /\ UNCHANGED <<notResource, accounts, usage, documents, chats>>

\* deleteModel
DeleteModel(u, tm, m) ==
  /\ UNCHANGED <<notResource, accounts, usage, documents, chats>>
  /\ IF ~aimodels[m].exists
     THEN ResourceReply("deleteModel", m, u, tm, TRUE, 404) /\ UNCHANGED aimodels
     ELSE IF aimodels[m].user # u
          THEN ResourceReply("deleteModel", m, u, tm, TRUE, 403) /\ UNCHANGED aimodels
          ELSE /\ aimodels' = [aimodels EXCEPT ![m] = NoModel]
               /\ ResourceReply("deleteModel", m, u, tm, TRUE, 200)

\* createChat with the default title: isTeamMember reads req.user.team, a
\* field the User schema does not have, so only the model's owner passes
CreateChat(u, tm, m) ==
  LET Answer(code) == ResourceReply("createChat", "", u, tm, m # "", code) /\ UNCHANGED chats
  IN /\ UNCHANGED <<notResource, accounts, usage, documents, aimodels>>
     /\ IF m = "" THEN Answer(400)
        ELSE IF ~aimodels[m].exists THEN Answer(404)
        ELSE IF aimodels[m].user # u THEN Answer(403)
        ELSE \E c \in ChatIds :
               /\ ~chats[c].exists
               /\ chats' = [chats EXCEPT ![c] =
                              [exists |-> TRUE, user |-> u, model |-> m,
                               title |-> "New Chat", messages |-> 0]]
               /\ ResourceReply("createChat", c, u, tm, TRUE, 201)

\* sendMessage: the user's message and the assistant's answer are pushed
SendMessage(u, tm, c, hasContent) ==
  LET Answer(code) == /\ ResourceReply("sendMessage", c, u, tm, hasContent, code)
                      /\ UNCHANGED <<chats, usage>>
  IN /\ UNCHANGED <<notResource, accounts, documents, aimodels>>
     /\ IF ~hasContent THEN Answer(400)
        ELSE IF ~chats[c].exists THEN Answer(404)
        ELSE IF chats[c].user # u THEN Answer(403)
        ELSE /\ chats[c].messages < MaxMessages
             /\ chats' = [chats EXCEPT ![c].messages = @ + 2]
             /\ TrackUsage(u, "", "chat", "")
             /\ ResourceReply("sendMessage", c, u, tm, TRUE, 200)

\* deleteChat
DeleteChat(u, tm, c) ==
  /\ UNCHANGED <<notResource, accounts, usage, documents, aimodels>>
  /\ IF ~chats[c].exists
     THEN ResourceReply("deleteChat", c, u, tm, TRUE, 404) /\ UNCHANGED chats
     ELSE IF chats[c].user # u
          THEN ResourceReply("deleteChat", c, u, tm, TRUE, 403) /\ UNCHANGED chats
          ELSE /\ chats' = [chats EXCEPT ![c] = NoChat]
               /\ ResourceReply("deleteChat", c, u, tm, TRUE, 200)

\* updateChat
UpdateChat(u, tm, c, title) ==
  LET Answer(code) == ResourceReply("updateChat", c, u, tm, title # "", code) /\ UNCHANGED chats
  IN /\ UNCHANGED <<notResource, accounts, usage, documents, aimodels>>
     /\ IF title = "" THEN Answer(400)
        ELSE IF ~chats[c].exists THEN Answer(404)
        ELSE IF chats[c].user # u THEN Answer(403)
        ELSE /\ chats' = [chats EXCEPT ![c].title = title]
             /\ ResourceReply("updateChat", c, u, tm, TRUE, 200)

\* ---------------------------------------------------------------- training, step by step
\* model.status = v, model.trainingProgress = v: an assignment marks the path
\* as modified only when it changes the value
SetStatus(mem, v) ==
  IF mem.status = v THEN mem
  ELSE [mem EXCEPT !.status = v, !.dirty = @ \cup {"status"}]

SetProgress(mem, v) ==
  IF mem.trainingProgress = v THEN mem
  ELSE [mem EXCEPT !.trainingProgress = v, !.dirty = @ \cup {"trainingProgress"}]

\* the stored model after model.save(): the modified paths are written
Written(doc, mem) ==
  [doc EXCEPT !.status = IF "status" \in mem.dirty THEN mem.status ELSE @,
              !.trainingProgress =
                 IF "trainingProgress" \in mem.dirty THEN mem.trainingProgress ELSE @]

Saved(mem) == [mem EXCEPT !.dirty = {}, !.saving = FALSE]

\* variant: save() may run twice in parallel on one document
SaveInFlightIgnored(mem) == FALSE

\* model.save() on a document with a save in flight rejects with a
\* ParallelSaveError
SaveInFlight(mem) == mem.saving

\* Math.floor((i / steps) * 100)
Progress(i) == (i * 100) \div steps

TrainReply(p, m, code, mem) ==
  trainRes' = [proc |-> p, op |-> "trainModel", id |-> m, status |-> code,
               modelStatus |-> mem.status, trainingProgress |-> mem.trainingProgress]

\* trainModel up to the answer of AIModel.findById and the checks on it
TrainFind(p, u, m) ==
  LET model == aimodels[m]
      Answer(code) == TrainReply(p, m, code, NoMem) /\ UNCHANGED train
  IN /\ train[p].pc = "idle"
     /\ train[p].sim \in {"none", "done", "failed"}
     /\ UNCHANGED <<notTrain, resourceVars>>
     /\ IF ~model.exists THEN Answer(404)
        ELSE IF model.status = "training" THEN Answer(400)
        ELSE IF model.user # u THEN Answer(403)
        ELSE /\ train' = [train EXCEPT ![p] =
                            [NoTrain EXCEPT !.pc = "tm_documents", !.id = m, !.caller = u,
                                            !.mem = [NoMem EXCEPT
                                                       !.status = model.status,
                                                       !.trainingProgress =
                                                          model.trainingProgress]]]
             /\ trainRes' = NoTrainRes

\* trainModel from the answer of Document.find: setTimeout schedules the
\* simulation on the handler's model, then the handler assigns status and
\* progress and calls model.save()
TrainDocuments(p) ==
  LET t == train[p]
  IN /\ t.pc = "tm_documents"
     /\ UNCHANGED <<notTrain, resourceVars>>
     /\ IF {d \in aimodels[t.id].documents : documents[d].exists} = {}
        THEN /\ TrainReply(p, t.id, 400, NoMem)
             /\ train' = [train EXCEPT ![p] = NoTrain]
        ELSE /\ train' = [train EXCEPT
                            ![p].pc = "tm_save",
                            ![p].sim = "scheduled",
                            ![p].mem = [SetProgress(SetStatus(t.mem, "training"), 0)
                                          EXCEPT !.saving = TRUE]]
             /\ trainRes' = NoTrainRes

\* the handler's model.save() completes; res.status(200).json({data: model})
TrainSave(p) ==
  LET t == train[p]
  IN /\ t.pc = "tm_save"
     /\ aimodels' = [aimodels EXCEPT ![t.id] = Written(@, t.mem)]
     /\ train' = [train EXCEPT ![p].pc = "idle", ![p].mem = Saved(t.mem)]
     /\ TrainReply(p, t.id, 200, t.mem)
     /\ UNCHANGED <<notTrain, documents, chats, rres, accounts, usage>>

\* the timer of trainModel fires: simulateModelTraining assigns status,
\* progress and saves; a rejected save ends the simulation in
\* .catch(console.error)
TimerFires(p) ==
  LET t == train[p]
      mem == SetProgress(SetStatus(t.mem, "training"), 0)
  IN /\ t.sim = "scheduled"
     /\ trainRes' = NoTrainRes
     /\ UNCHANGED <<notTrain, documents, chats, rres, accounts, usage>>
     /\ IF SaveInFlight(t.mem)
        THEN /\ train' = [train EXCEPT ![p].sim = "failed", ![p].mem = mem]
             /\ UNCHANGED aimodels
        ELSE /\ aimodels' = [aimodels EXCEPT ![t.id] = Written(@, mem)]
             /\ train' = [train EXCEPT ![p].sim = "wait", ![p].mem = Saved(mem)]

\* one round of the loop: the step timer fires, trainingProgress is assigned
\* and saved
SimStep(p) ==
  LET t == train[p]
      mem == SetProgress(t.mem, Progress(t.step + 1))
  IN /\ t.sim = "wait"
     /\ t.step < steps
     /\ trainRes' = NoTrainRes
     /\ UNCHANGED <<notTrain, documents, chats, rres, accounts, usage>>
     /\ IF SaveInFlight(t.mem)
        THEN /\ train' = [train EXCEPT ![p].sim = "failed", ![p].mem = mem]
             /\ UNCHANGED aimodels
        ELSE /\ aimodels' = [aimodels EXCEPT ![t.id] = Written(@, mem)]
             /\ train' = [train EXCEPT ![p].step = @ + 1, ![p].mem = Saved(mem)]

\* after the loop: status 'ready', trainingProgress 100, save
SimComplete(p) ==
  LET t == train[p]
      mem == SetProgress(SetStatus(t.mem, "ready"), 100)
  IN /\ t.sim = "wait"
     /\ t.step = steps
     /\ trainRes' = NoTrainRes
     /\ UNCHANGED <<notTrain, documents, chats, rres, accounts, usage>>
     /\ IF SaveInFlight(t.mem)
        THEN /\ train' = [train EXCEPT ![p].sim = "failed", ![p].mem = mem]
             /\ UNCHANGED aimodels
        ELSE /\ aimodels' = [aimodels EXCEPT ![t.id] = Written(@, mem)]
             /\ train' = [train EXCEPT ![p].sim = "done", ![p].mem = Saved(mem)]

\* the protect middleware of the private routes: the token's user must be
\* stored; otherwise 401 and the handler is not called
protect(u) == u \in accounts

Unauthorized(u) ==
  /\ ~protect(u)
  /\ rres' = [NoResourceRes EXCEPT !.op = "protect", !.caller = u, !.status = 401]
  /\ UNCHANGED <<notResource, accounts, usage, documents, aimodels, chats>>

\* variant: the account is deleted together with the usage records of the user
DeleteAccountCascade(u) ==
  /\ accounts' = accounts \ {u}
  /\ usage' = SelectSeq(usage, LAMBDA r : r.user # u)
  /\ rres' = [NoResourceRes EXCEPT !.op = "deleteAccount", !.caller = u, !.status = 200]
  /\ UNCHANGED <<notResource, documents, aimodels, chats>>

\* deleteAccount: User.findByIdAndDelete(req.user.id) and nothing else
DeleteAccount(u) ==
  /\ accounts' = accounts \ {u}
  /\ rres' = [NoResourceRes EXCEPT !.op = "deleteAccount", !.caller = u, !.status = 200]
  /\ UNCHANGED <<notResource, usage, documents, aimodels, chats>>

\* ---------------------------------------------------------------- payments controller
\* the documents Subscription.findOne({user, status: {$in: ['active',
\* 'trialing']}}) can return
ActiveSubscriptions(subs) ==
  {i \in 1..Len(subs) : subs[i].status \in {"active", "trialing"}}

SubReply(p, op, code) ==
  /\ sres' = [proc |-> p, op |-> op, status |-> code]
  /\ spc' = [spc EXCEPT ![p] = "idle"]
  /\ sloc' = [sloc EXCEPT ![p] = NoSubLoc]

SubGoto(p, label, l) ==
  /\ sres' = NoSubRes
  /\ spc' = [spc EXCEPT ![p] = label]
  /\ sloc' = [sloc EXCEPT ![p] = l]

\* the condition of "if upgrading from free, set renewal date": it reads
\* subscription.plan after the handler has assigned req.body.plan to it
UpgradingFromFree(assigned, plan) == assigned = "free" /\ plan # "free"

\* subscribe up to the answer of Subscription.findOne; with a document the
\* handler assigns plan, paymentMethod and status 'active' to it in memory
SubscribeFind(p, plan, method) ==
  /\ spc[p] = "idle"
  /\ UNCHANGED <<notSub, subscriptions, userPlan>>
  /\ IF plan \notin availablePlans
     THEN SubReply(p, "subscribe", 400)
     ELSE IF ActiveSubscriptions(subscriptions) = {}
          THEN SubGoto(p, "sb_create",
                       [NoSubLoc EXCEPT !.plan = plan, !.paymentMethod = method])
          ELSE \E i \in ActiveSubscriptions(subscriptions) :
                 SubGoto(p, "sb_user",
                         [index |-> i, plan |-> plan, paymentMethod |-> method,
                          setPlan |-> subscriptions[i].plan # plan,
                          setStatus |-> subscriptions[i].status # "active",
                          setRenewalDate |-> UpgradingFromFree(plan, plan)])

\* Subscription.create({user, plan, status: 'active', renewalDate: plan ===
\* 'free' ? null : renewalDate, ...}); the schema validates paymentMethod
SubscribeCreate(p) ==
  /\ spc[p] = "sb_create"
  /\ UNCHANGED <<notSub, userPlan>>
  /\ IF sloc[p].paymentMethod \notin paymentMethodEnum
     THEN SubReply(p, "subscribe", 500) /\ UNCHANGED subscriptions
     ELSE /\ Len(subscriptions) < MaxSubscriptions
          /\ subscriptions' =
               Append(subscriptions,
                      [plan |-> sloc[p].plan, status |-> "active",
                       renewalDate |-> IF sloc[p].plan = "free" THEN "null" ELSE "date"])
          /\ SubGoto(p, "sb_user", [sloc[p] EXCEPT !.index = Len(subscriptions) + 1])

\* User.findByIdAndUpdate(req.user.id, { plan })
SubscribeUpdateUser(p) ==
  /\ spc[p] = "sb_user"
  /\ userPlan' = sloc[p].plan
  /\ SubGoto(p, "sb_save", sloc[p])
  /\ UNCHANGED <<notSub, subscriptions>>

\* subscription.save() validates the document and writes the changed paths;
\* res.status(200), or the validation error through next(err)
SubscribeSave(p) ==
  LET i == sloc[p].index
  IN /\ spc[p] = "sb_save"
     /\ UNCHANGED <<notSub, userPlan>>
     /\ IF sloc[p].paymentMethod \notin paymentMethodEnum
        THEN SubReply(p, "subscribe", 500) /\ UNCHANGED subscriptions
        ELSE /\ subscriptions' =
                  [subscriptions EXCEPT
                     ![i].plan = IF sloc[p].setPlan THEN sloc[p].plan ELSE @,
                     ![i].status = IF sloc[p].setStatus THEN "active" ELSE @,
                     ![i].renewalDate = IF sloc[p].setRenewalDate THEN "date" ELSE @]
             /\ SubReply(p, "subscribe", 200)

\* cancelSubscription up to the answer of Subscription.findOne
CancelFind(p) ==
  /\ spc[p] = "idle"
  /\ UNCHANGED <<notSub, subscriptions, userPlan>>
  /\ IF ActiveSubscriptions(subscriptions) = {}
     THEN SubReply(p, "cancelSubscription", 404)
     ELSE \E i \in ActiveSubscriptions(subscriptions) :
            SubGoto(p, "cn_save", [NoSubLoc EXCEPT !.index = i])

\* subscription.status = 'canceled'; subscription.save()
CancelSave(p) ==
  /\ spc[p] = "cn_save"
  /\ subscriptions' = [subscriptions EXCEPT ![sloc[p].index].status = "canceled"]
  /\ SubGoto(p, "cn_user", sloc[p])
  /\ UNCHANGED <<notSub, userPlan>>

\* User.findByIdAndUpdate(req.user.id, { plan: 'free' }); res.status(200)
CancelUpdateUser(p) ==
  /\ spc[p] = "cn_user"
  /\ userPlan' = "free"
  /\ SubReply(p, "cancelSubscription", 200)
  /\ UNCHANGED <<notSub, subscriptions>>

\* ---------------------------------------------------------------- faults
TxnSteps == {"cc_company", "cc_context", "cc_commit",
             "uc_latest", "uc_deactivate", "uc_insert", "uc_company", "uc_commit"}

\* the store call the handler is awaiting inside its try block throws
Fail(p) ==
  /\ pc[p] \in TxnSteps
  /\ Abort(p)

\* ---------------------------------------------------------------- specifications
Inputs == Texts \cup {""}

StatusInputs == {"in_progress", "bogus"}

\* the steps of the two transactional handlers and of the read, for requests
\* that create company ids of C and update or read those of G
TxnCalls(p, C, G) ==
  \/ \E c \in C, t \in Inputs : StartCreate(p, c, t)
  \/ CreateCompanyDoc(p)
  \/ CreateContextDoc(p)
  \/ CreateCommit(p)
  \/ \E c \in G, t \in Inputs : StartUpdate(p, c, t)
  \/ ReadLatest(p)
  \/ DeactivateAll(p)
  \/ InsertContext(p)
  \/ UpdateCompanyDoc(p)
  \/ UpdateCommit(p)
  \/ \E c \in G : GetFindCompany(p, c)
  \/ GetFindContext(p)

\* the bodies of updateCompany: a new documentContext or a new companyId
Bodies == {<<t, "keep">> : t \in Inputs} \cup {<<"keep", c>> : c \in CompanyIds}

\* one client: every request completes before the next one starts
Next ==
  \/ TxnCalls("p1", CompanyIds, CompanyIds)
  \/ \E c \in CompanyIds, b \in Bodies : UpdateCompany("p1", c, b[1], b[2])
  \/ \E c \in CompanyIds : DeleteCompany("p1", c)
  \/ \E c \in CompanyIds, s \in StatusInputs : UpdateTrainingStatus("p1", c, s)
  \/ \E t \in Inputs : StoreSummary("p1", t)

Spec == Init /\ [][Next]_vars

\* two clients whose requests overlap: companies are created and deleted as
\* c1 and renamed to c2
NextConc ==
  \E p \in Procs :
    \/ TxnCalls(p, {"c1"}, CompanyIds)
    \/ \E t \in {"B", "keep"} : UpdateCompany(p, "c1", t, IF t = "keep" THEN "c2" ELSE "keep")
    \/ DeleteCompany(p, "c1")

SpecConc == Init /\ [][NextConc]_vars

NextFault == NextConc \/ \E p \in Procs : Fail(p)

SpecFault == Init /\ [][NextFault]_vars

\* the script run between the requests of one client, on a store that starts
\* with the companies of the time before the CompanyContext collection: with
\* or without a documentContext, and without version records
LegacyCompanies == {NoCompany, CompanyDoc("", "completed"), CompanyDoc("A", "completed")}

InitMigrate ==
  /\ TeamStoreEmpty
  /\ ResourceStoreEmpty
  /\ SubscriptionStoreEmpty
  /\ NoTraining
  /\ company \in [CompanyIds -> LegacyCompanies]
  /\ contexts = <<>>
  /\ pc = [p \in Procs |-> "idle"]
  /\ req = [p \in Procs |-> NoReq]
  /\ res = NoRes
  /\ loc = [p \in Procs |-> NoLoc]
  /\ txn = [p \in Procs |-> NoTxn]

NextMigrate ==
  \/ TxnCalls("p1", CompanyIds, CompanyIds)
  \/ \E c, c2 \in CompanyIds : UpdateCompany("p1", c, "keep", c2)
  \/ \E c \in CompanyIds : DeleteCompany("p1", c)
  \/ MigrateCompanyContexts

SpecMigrate == InitMigrate /\ [][NextMigrate]_vars

\* one client that creates, renames, deletes and updates companies, also with
\* a text of a hundred characters, and asks for the diagnostic report
DiagTexts == {"A", "s"}

NextDiag ==
  \/ \E c \in CompanyIds, t \in DiagTexts : StartCreate("p1", c, t)
  \/ CreateCompanyDoc("p1")
  \/ CreateContextDoc("p1")
  \/ CreateCommit("p1")
  \/ \E c \in CompanyIds, t \in DiagTexts : StartUpdate("p1", c, t)
  \/ ReadLatest("p1")
  \/ DeactivateAll("p1")
  \/ InsertContext("p1")
  \/ UpdateCompanyDoc("p1")
  \/ UpdateCommit("p1")
  \/ \E c, c2 \in CompanyIds : UpdateCompany("p1", c, "keep", c2)
  \/ \E c \in CompanyIds : DeleteCompany("p1", c)
  \/ \E c \in CompanyIds : DiagFindCompany("p1", c)
  \/ DiagFindContexts("p1")

SpecDiag == Init /\ [][NextDiag]_vars

\* the teams controller on a Team collection that holds nothing or a team
\* stored earlier: its owner's entry and a businessId
StoredTeams == {[NewTeam(n, u) EXCEPT !.businessId = u] : n \in {"N1"}, u \in {"u1"}}

InitTeam ==
  /\ CompanyStoreEmpty
  /\ ResourceStoreEmpty
  /\ SubscriptionStoreEmpty
  /\ NoTraining
  /\ teams \in [TeamIds -> {NoTeam} \cup StoredTeams]
  /\ tres = NoTeamRes
  /\ tadd = [p \in Procs |-> NoAdd]

Emails == Users \cup {"", "nobody"}

RoleInputs == {"", "member", "admin", "owner"}

NextTeam ==
  \/ \E u \in Users, n \in TeamNames \cup {""} : CreateTeam(u, n)
  \/ \E u \in Users, t \in TeamIds, n \in TeamNames \cup {""} : UpdateTeam(u, t, n)
  \/ \E u \in Users, t \in TeamIds : DeleteTeam(u, t)
  \/ \E u \in Users, t \in TeamIds, e \in Emails, r \in RoleInputs :
       AddTeamMember(u, t, e, r)
  \/ \E u \in Users, t \in TeamIds, x \in Users : RemoveTeamMember(u, t, x)
  \/ \E u \in Users, t \in TeamIds, x \in Users, r \in RoleInputs :
       UpdateMemberRole(u, t, x, r)

SpecTeam == InitTeam /\ [][NextTeam]_vars

\* two addTeamMember requests at a time
NextTeamConc ==
  \E p \in Procs :
    \/ \E u \in {"u1", "u2"}, t \in TeamIds, e \in {"u2", "u3", ""}, r \in {"", "admin"} :
         AddFindTeam(p, u, t, e, r)
    \/ AddFindUser(p)
    \/ AddSave(p)

SpecTeamConc == InitTeam /\ [][NextTeamConc]_vars

\* one client at a time on the document, model and chat stores; the caller is
\* a user id with the teamId its User document carries at the time of the call
CallerTeams == TeamRefs \cup {""}

\* the teamId a user carries when it creates a resource: u1 belongs to a
\* team, u2 to none
OwnerTeam(u) == IF u = "u1" THEN "T1" ELSE ""

NextResource ==
  \/ \E u \in Owners, t \in {"X", ""} : UploadDocument(u, OwnerTeam(u), t)
  \/ \E u \in Owners, tm \in CallerTeams, d \in DocIds : GetDocument(u, tm, d)
  \/ \E u \in Owners, d \in DocIds, t \in {"Y", ""} : UpdateDocument(u, "", d, t)
  \/ \E u \in Owners, d \in DocIds : DeleteDocument(u, "", d)
  \/ \E u \in Owners, n \in {"X", ""}, ids \in SUBSET DocIds :
       CreateModel(u, OwnerTeam(u), n, ids)
  \/ \E u \in Owners, tm \in CallerTeams, m \in ModelIds : GetModel(u, tm, m)
  \/ \E u \in Owners, m \in ModelIds : TrainModel(u, "", m)
  \/ \E m \in ModelIds : TrainingCompletes(m)
  \/ \E u \in Owners, m \in ModelIds : DeleteModel(u, "", m)
  \/ \E u \in Owners, m \in ModelIds \cup {""} : CreateChat(u, "", m)
  \/ \E u \in Owners, c \in ChatIds, b \in BOOLEAN : SendMessage(u, "", c, b)
  \/ \E u \in Owners, c \in ChatIds : DeleteChat(u, "", c)
  \/ \E u \in Owners, c \in ChatIds, t \in {"Y", ""} : UpdateChat(u, "", c, t)

SpecResource == Init /\ [][NextResource]_vars

\* the calls that write the usage ledger, and the deletions of what the
\* ledger refers to, behind the protect middleware
IdInputs == DocIds \cup {"bad"}

NextUsage ==
  \/ \E u \in Owners : Unauthorized(u)
  \/ \E u \in Owners : protect(u) /\ UploadDocument(u, "", "A")
  \/ \E u \in Owners, d \in DocIds : protect(u) /\ DeleteDocument(u, "", d)
  \/ \E u \in Owners, name \in {"", "A"}, ids \in SUBSET IdInputs :
       protect(u) /\ CreateModel(u, "", name, ids)
  \/ \E u \in Owners, m \in ModelIds : protect(u) /\ DeleteModel(u, "", m)
  \/ \E u \in Owners, m \in ModelIds : protect(u) /\ CreateChat(u, "", m)
  \/ \E u \in Owners, c \in ChatIds : protect(u) /\ SendMessage(u, "", c, TRUE)
  \/ \E u \in Owners, c \in ChatIds : protect(u) /\ DeleteChat(u, "", c)
  \/ \E u \in Owners : protect(u) /\ DeleteAccount(u)

SpecUsage == Init /\ [][NextUsage]_vars

\* trainModel requests on a stored model: the store after u1 has uploaded
\* document d1 and created model m1 from it
InitTrain ==
  /\ CompanyStoreEmpty
  /\ TeamStoreEmpty
  /\ SubscriptionStoreEmpty
  /\ NoTraining
  /\ documents = [d \in DocIds |-> [exists |-> TRUE, user |-> "u1", team |-> "", title |-> "A"]]
  /\ aimodels = [m \in ModelIds |->
                   [exists |-> TRUE, user |-> "u1", team |-> "", status |-> "pending",
                    documents |-> DocIds, trainingProgress |-> 0]]
  /\ chats = [c \in ChatIds |-> NoChat]
  /\ rres = NoResourceRes
  /\ accounts = Owners
  /\ usage = <<UsageDoc("u1", "", "document_upload", "d1"),
               UsageDoc("u1", "", "model_training", "m1")>>

NextTrain ==
  \E p \in Procs :
    \/ \E u \in Owners, m \in ModelIds : TrainFind(p, u, m)
    \/ TrainDocuments(p)
    \/ TrainSave(p)
    \/ TimerFires(p)
    \/ SimStep(p)
    \/ SimComplete(p)

SpecTrain == InitTrain /\ [][NextTrain]_vars

\* the event loop runs every continuation and every timer that is due
SpecTrainFair ==
  /\ SpecTrain
  /\ \A p \in Procs :
       /\ WF_vars(TrainDocuments(p))
       /\ WF_vars(TrainSave(p))
       /\ WF_vars(TimerFires(p))
       /\ WF_vars(SimStep(p))
       /\ WF_vars(SimComplete(p))

\* two requests of one user to the payments controller at a time
PlanInputs == {"free", "basic", "bogus"}

\* req.body.paymentMethod after the default: paymentMethod || 'credit_card'
PaymentInputs == {"credit_card", "bitcoin"}

NextSub ==
  \E p \in Procs :
    \/ \E plan \in PlanInputs, method \in PaymentInputs : SubscribeFind(p, plan, method)
    \/ SubscribeCreate(p)
    \/ SubscribeUpdateUser(p)
    \/ SubscribeSave(p)
    \/ CancelFind(p)
    \/ CancelSave(p)
    \/ CancelUpdateUser(p)

SpecSub == Init /\ [][NextSub]_vars

\* ---------------------------------------------------------------- properties
CreateSteps == {"cc_company", "cc_context", "cc_commit"}

VersionsOf(ctxs, c) == {ctxs[i].version : i \in ContextsOf(ctxs, c)}

\* the version numbers are 1..n, each carried by one record
Gapless(ctxs, c) ==
  VersionsOf(ctxs, c) = 1..Cardinality(ContextsOf(ctxs, c))

UpdateOpenOn(c) ==
  \E q \in Procs : pc[q] \in UpdateSteps /\ req[q].companyId = c

\* C1: whenever no call is in progress, each companyId has at most one
\* CompanyContext record with isActive = true.
C1_AtMostOneActive ==
  (\A p \in Procs : pc[p] = "idle") =>
    \A c \in CompanyIds : Cardinality(ActiveOf(contexts, c)) <= 1

\* C2: when the last of several overlapping updateCompanyContext calls on one
\* company completes (committed or aborted on a write conflict), the company
\* has exactly one active version and its text is one of the submitted texts.
C2_OverlappingUpdatesOneActive ==
  (/\ res.op = "updateCompanyContext"
   /\ res.status \in {200, 500}
   /\ res.met # {}
   /\ ~UpdateOpenOn(res.companyId)) =>
    /\ Cardinality(ActiveOf(contexts, res.companyId)) = 1
    /\ \A i \in ActiveOf(contexts, res.companyId) :
         contexts[i].context \in {res.sent} \cup res.met

C2_Witness ==
  /\ res.op = "updateCompanyContext"
  /\ res.status = 200
  /\ res.met # {}
  /\ res.sent \notin res.met
  /\ ~UpdateOpenOn(res.companyId)

C4_VersionNeverReused ==
  (res.op = "updateCompanyContext" /\ res.status = 200 /\ res.met # {}) =>
    Cardinality({i \in ContextsOf(contexts, res.companyId) :
                   contexts[i].version = res.version}) = 1

\* C5: every step of an updateCompanyContext call other than its successful
\* commit leaves both collections as they are, a call that ends without
\* committing answers with an error, and no company ever shows records none of
\* which is active.
C5_FailedUpdateLeavesStore ==
  /\ [](\A c \in CompanyIds :
          ContextsOf(contexts, c) # {} => ActiveOf(contexts, c) # {})
  /\ [][\A p \in Procs :
          (/\ pc[p] \in UpdateSteps
           /\ pc'[p] # pc[p]
           /\ ~(pc[p] = "uc_commit" /\ res'.status = 200))
            => /\ company' = company
               /\ contexts' = contexts
               /\ pc'[p] = "idle" => (res'.proc = p /\ res'.status = 500)
     ]_vars

C5_Witness ==
  /\ res.op = "updateCompanyContext"
  /\ res.status = 500
  /\ res.met = {}
  /\ company[res.companyId].exists
  /\ Cardinality(ActiveOf(contexts, res.companyId)) = 1
  /\ Cardinality(ContextsOf(contexts, res.companyId)) = 2

\* C6: a createCompany call either commits, and then the Company record and
\* its CompanyContext record {version 1, isActive true, same text} are both
\* stored, or changes neither collection at any of its steps.
C6_CreateAllOrNothing ==
  [][\A p \in Procs :
       (pc[p] \in CreateSteps /\ pc'[p] # pc[p]) =>
         IF pc[p] = "cc_commit" /\ res'.status = 201
         THEN /\ company'[req[p].companyId] = CompanyDoc(req[p].context, "completed")
              /\ \E i \in ContextsOf(contexts', req[p].companyId) :
                   /\ i \notin ContextsOf(contexts, req[p].companyId)
                   /\ contexts'[i] = ContextDoc(req[p].companyId, req[p].context, 1, TRUE)
         ELSE /\ company' = company
              /\ contexts' = contexts
              /\ res'.status = IF pc'[p] = "idle" THEN 500 ELSE 0
    ]_vars

C6_Witness ==
  /\ res.op = "createCompany"
  /\ res.status = 500
  /\ ~company[res.companyId].exists

\* C7: getCompanyContext answers from the active record when the company id
\* has one, else from a non-empty Company.documentContext with version 1, else
\* with 404.
C7_ResolutionOrder ==
  res.op = "getCompanyContext" =>
    LET c == res.companyId
    IN IF ActiveOf(contexts, c) # {}
       THEN /\ res.status = 200
            /\ res.source = "context_collection"
            /\ \E i \in ActiveOf(contexts, c) :
                 res.context = contexts[i].context /\ res.version = contexts[i].version
       ELSE IF company[c].exists /\ company[c].documentContext # ""
            THEN /\ res.status = 200
                 /\ res.source = "company_fallback"
                 /\ res.context = company[c].documentContext
                 /\ res.version = 1
            ELSE res.status = 404

\* C8: right after a successful createCompany or updateCompanyContext with
\* text T and version v, the only answer getCompanyContext can give for the
\* company is {T, v, context_collection}.
C8_ReadYourWrites ==
  (res.op \in {"createCompany", "updateCompanyContext"} /\ res.status \in {200, 201}) =>
    ContextAnswers(company[res.companyId], contexts, res.companyId) =
      {[Status(200) EXCEPT !.context = res.sent,
                           !.version = IF res.op = "createCompany" THEN 1 ELSE res.version,
                           !.source = "context_collection"]}

\* C9: whenever no call is in progress, a company with an active version has
\* Company.documentContext equal to the active version's text.
C9_CacheInSync ==
  (\A p \in Procs : pc[p] = "idle") =>
    \A c \in CompanyIds :
      company[c].exists =>
        \A i \in ActiveOf(contexts, c) : contexts[i].context = company[c].documentContext

\* C10: getCompanyContext answers with source company_fallback only for a
\* company id that has no CompanyContext record.
C10_FallbackOnlyWithoutRecords ==
  (res.op = "getCompanyContext" /\ res.source = "company_fallback") =>
    ContextsOf(contexts, res.companyId) = {}

C10_Witness ==
  /\ res.op = "getCompanyContext"
  /\ res.source = "company_fallback"
  /\ UpdateOpenOn(res.companyId)

\* C11: the report on an existing company suggests CREATE_CONTEXT exactly when
\* the company has no version record and a non-empty denormalized context,
\* UPLOAD_DOCUMENT exactly when it has no version record and no denormalized
\* context, and FIX_ACTIVE_CONTEXTS exactly when more than one record is active.
C11_DiagnosticSuggestion ==
  (res.op = "contextDiagnostic" /\ res.exists) =>
    LET c == res.companyId
        none == ContextsOf(contexts, c) = {}
        present == company[c].documentContext # ""
    IN /\ res.suggestion = "CREATE_CONTEXT" <=> (none /\ present)
       /\ res.suggestion = "UPLOAD_DOCUMENT" <=> (none /\ ~present)
       /\ res.suggestion = "FIX_ACTIVE_CONTEXTS" <=>
            Cardinality(ActiveOf(contexts, c)) > 1

\* C12: the context-diagnostic read never answers 404; for a companyId
\* without a Company record it answers 200 with exists = false.
C12_DiagnosticNever404 ==
  res.op = "contextDiagnostic" =>
    /\ res.status # 404
    /\ ~company[res.companyId].exists => (res.status = 200 /\ ~res.exists)

\* C13: a createCompany call that carries a text and does not succeed with 201
\* is answered 400, also when it overlaps another createCompany call for the
\* same new companyId.
C13_DuplicateCreate400 ==
  (res.op = "createCompany" /\ res.sent # "" /\ res.status # 201) =>
    res.status = 400

\* ---------------------------------------------------------------- team properties
OwnerEntries(team) ==
  {i \in 1..Len(team.members) : team.members[i].role = "owner"}

\* the role the handler of op requires of the caller u of team
HasRequiredRole(op, team, u) ==
  IF op \in {"addTeamMember", "removeTeamMember"}
  THEN RoleIn(team, u) \in {"owner", "admin"}
  ELSE team.owner = u

TeamMutators == {"addTeamMember", "removeTeamMember", "updateMemberRole",
                 "updateTeam", "deleteTeam"}

\* the body of the call passes the handler's input validation
BodyValid(r) ==
  CASE r.op = "addTeamMember" -> r.target # "" /\ r.role \in validRoles \cup {""}
    [] r.op = "updateMemberRole" -> r.role \in validRoles
    [] OTHER -> TRUE

\* C14: a removeTeamMember call on an existing team whose target is the
\* team's owner is answered 400 and leaves the team unchanged, whoever calls.
C14_OwnerRemovalRejected400 ==
  [][(/\ tres'.op = "removeTeamMember"
      /\ teams[tres'.team].exists
      /\ teams[tres'.team].owner = tres'.target)
       => (tres'.status = 400 /\ teams' = teams)]_vars

C16_CreateTeam ==
  [][tres'.op = "createTeam" =>
       IF UserType(tres'.caller) # "business"
       THEN tres'.status = 403 /\ teams' = teams
       ELSE tres'.name # "" =>
              /\ tres'.status = 201
              /\ \E t \in TeamIds :
                   /\ ~teams[t].exists
                   /\ teams'[t].exists
                   /\ teams'[t].owner = tres'.caller
                   /\ teams'[t].members = <<[user |-> tres'.caller, role |-> "owner"]>>
    ]_vars

\* C17 as stated: on an existing team a call of a caller without the required
\* role (owner or admin for addTeamMember and removeTeamMember, owner for
\* updateMemberRole, updateTeam and deleteTeam) is answered 403 and leaves
\* the team unchanged.
C17_UnauthorizedGets403 ==
  [][(/\ tres'.op \in TeamMutators
      /\ teams[tres'.team].exists
      /\ ~HasRequiredRole(tres'.op, teams[tres'.team], tres'.caller))
       => (tres'.status = 403 /\ teams' = teams)]_vars

\* C17 amended: such a call leaves the team unchanged and is answered 403
\* when its body passes the input validation and 400 when it does not; a
\* team changes only by a call of a caller with the required role.
C17_UnauthorizedNeverMutates ==
  [][tres'.op \in TeamMutators =>
       /\ teams' # teams =>
            /\ teams[tres'.team].exists
            /\ HasRequiredRole(tres'.op, teams[tres'.team], tres'.caller)
       /\ (/\ teams[tres'.team].exists
           /\ ~HasRequiredRole(tres'.op, teams[tres'.team], tres'.caller))
            => /\ teams' = teams
               /\ tres'.status = IF BodyValid(tres') THEN 403 ELSE 400
    ]_vars

C17_Witness ==
  /\ tres.op = "addTeamMember"
  /\ tres.status = 403
  /\ teams[tres.team].exists
  /\ RoleIn(teams[tres.team], tres.caller) = "member"
  /\ tres.target \in Users

\* ---------------------------------------------------------------- resource properties
ResourceMutators == {"updateDocument", "deleteDocument", "trainModel",
                     "deleteModel", "updateChat", "deleteChat", "sendMessage"}

\* the stored resource a call of op on id is about
ResourceOf(op, id, docs, mods, chs) ==
  IF op \in {"getDocument", "updateDocument", "deleteDocument"} THEN docs[id]
  ELSE IF op \in {"getModel", "trainModel", "deleteModel"} THEN mods[id]
  ELSE chs[id]

\* C18: for an existing document or AI model, getDocument / getModel answers
\* 200 if the caller is the owner or the resource's team is set and equals
\* the caller's team, and 403 otherwise.
C18_ReadAuthorization ==
  rres.op \in {"getDocument", "getModel"} =>
    LET r == ResourceOf(rres.op, rres.id, documents, aimodels, chats)
    IN r.exists =>
         rres.status = IF r.user = rres.caller \/ (r.team # "" /\ r.team = rres.teamId)
                       THEN 200 ELSE 403

C18_Witness ==
  /\ rres.op = "getModel"
  /\ rres.status = 200
  /\ aimodels[rres.id].exists
  /\ aimodels[rres.id].user # rres.caller

\* C19: a mutating call with a well-formed body on an existing resource by a
\* caller who is not its owner is answered 403, whatever the state of the
\* resource, and changes no document, model or chat.
C19_NonOwnerMutation403 ==
  [][(/\ rres'.op \in ResourceMutators
      /\ rres'.valid
      /\ ResourceOf(rres'.op, rres'.id, documents, aimodels, chats).exists
      /\ ResourceOf(rres'.op, rres'.id, documents, aimodels, chats).user # rres'.caller)
       => /\ rres'.status = 403
          /\ documents' = documents
          /\ aimodels' = aimodels
          /\ chats' = chats
    ]_vars

\* C20: whenever no subscribe or cancelSubscription call of the user is in
\* progress, the user has at most one subscription record with status active
\* or trialing.
C20_AtMostOneActiveSubscription ==
  (\A p \in Procs : spc[p] = "idle") =>
    Cardinality(ActiveSubscriptions(subscriptions)) <= 1

\* ---------------------------------------------------------------- later company properties
\* C26: whenever no call is in progress, every CompanyContext record's
\* company_id is the companyId of an existing Company record.
C26_NoOrphanContext ==
  (\A p \in Procs : pc[p] = "idle") =>
    \A i \in 1..Len(contexts) : company[contexts[i].company_id].exists

\* ---------------------------------------------------------------- later payment properties
\* the user's plan attribute agrees with the subscription records: it is the
\* plan of every active or trialing subscription, and free when there is none
PlanInSync(subs, plan) ==
  IF ActiveSubscriptions(subs) = {}
  THEN plan = "free"
  ELSE \A i \in ActiveSubscriptions(subs) : subs[i].plan = plan

\* C21: when a subscribe or cancelSubscription call has completed and no other
\* is in progress, the user's plan is the plan of the user's active or
\* trialing subscription, and free when there is none.
C21_PlanInSync ==
  (sres.op \in {"subscribe", "cancelSubscription"} /\ \A p \in Procs : spc[p] = "idle") =>
    PlanInSync(subscriptions, userPlan)

\* C27: whenever no call is in progress, every active subscription whose plan
\* is not free has a renewal date.
C27_PaidPlanHasRenewalDate ==
  (\A p \in Procs : spc[p] = "idle") =>
    \A i \in 1..Len(subscriptions) :
      (subscriptions[i].status = "active" /\ subscriptions[i].plan # "free") =>
        subscriptions[i].renewalDate = "date"

\* ---------------------------------------------------------------- usage properties
IsPrefix(a, b) == Len(a) <= Len(b) /\ \A i \in 1..Len(a) : a[i] = b[i]

\* C23: no step changes or removes a usage record: the ledger of the old state
\* is a prefix of the ledger of the new state.
C23_UsageAppendOnly == [][IsPrefix(usage, usage')]_vars

\* a usage record outlives the document, the model and the account it names
C23_Witness ==
  /\ Len(usage) >= 2
  /\ \E i \in 1..Len(usage) :
       /\ usage[i].type = "document_upload"
       /\ ~documents[usage[i].resourceId].exists
       /\ usage[i].user \notin accounts

\* every id names a stored document of user u
AllOwned(ids, docs, u) ==
  \A d \in ids : CastsToObjectId(d) /\ docs[d].exists /\ docs[d].user = u

\* C28: a createModel call stores a model only when every id of documentIds
\* names a stored document of the caller, and then with exactly these
\* documents; a call with any other documentIds is answered 400 and stores
\* neither a model nor a usage record.
C28_CreateModelDocuments ==
  [][rres'.op = "createModel" /\ rres'.valid =>
       /\ aimodels' # aimodels =>
            /\ AllOwned(rres'.documentIds, documents, rres'.caller)
            /\ aimodels'[rres'.id].documents = rres'.documentIds
       /\ ~AllOwned(rres'.documentIds, documents, rres'.caller) =>
            /\ rres'.status = 400
            /\ aimodels' = aimodels
            /\ usage' = usage
    ]_vars

\* ---------------------------------------------------------------- training properties
\* the simulations that have started and not ended, per model
RunningOn(m) == {p \in Procs : train[p].id = m /\ train[p].sim \in {"scheduled", "wait"}}

\* C22: a 200 of trainModel carries the model with status training and
\* trainingProgress 0, and is sent before the simulation of this call has
\* advanced the progress or ended.
C22_AnswersInProgress ==
  (trainRes.op = "trainModel" /\ trainRes.status = 200) =>
    /\ trainRes.modelStatus = "training"
    /\ trainRes.trainingProgress = 0
    /\ train[trainRes.proc].step = 0
    /\ train[trainRes.proc].sim # "done"

\* a 200 is sent while the timer of the simulation is still pending
C22_Witness ==
  /\ trainRes.op = "trainModel"
  /\ trainRes.status = 200
  /\ train[trainRes.proc].sim = "scheduled"

\* no handler and no simulation has anything left to do
Quiet == \A p \in Procs : train[p].pc = "idle" /\ train[p].sim \in {"none", "done", "failed"}

\* C24: once every handler and every simulation has run to its end, a model
\* whose training was started is ready with trainingProgress 100.
C24_TrainingEndsReady ==
  Quiet =>
    \A m \in ModelIds :
      (aimodels[m].exists /\ aimodels[m].status # "pending") =>
        (aimodels[m].status = "ready" /\ aimodels[m].trainingProgress = 100)

\* C25: at most one simulation runs on a model at any time, and a model with
\* status ready has trainingProgress 100.
C25_OneSimulationPerModel ==
  \A m \in ModelIds :
    /\ Cardinality(RunningOn(m)) <= 1
    /\ (aimodels[m].exists /\ aimodels[m].status = "ready") =>
         aimodels[m].trainingProgress = 100

Unversioned(co, ctxs) ==
  {c \in CompanyIds : co[c].exists /\ co[c].documentContext # "" /\ ActiveOf(ctxs, c) = {}}

====
